---- MODULE Spec2Model ----
(***************************************************************************)
(* Payment-transactions service (NestJS + Mongoose):                       *)
(*   TransactionsController -> TransactionsService -> OrdersClientService  *)
(*                                                 -> transactionModel     *)
(* The state is the transactions collection, the clock, NODE_ENV and, for  *)
(* each request being served, the position of its handler between awaits.  *)
(***************************************************************************)
EXTENDS Integers, Sequences, FiniteSets, TLC

(***************************************************************************)
(* Bounds of the model.                                                    *)
(***************************************************************************)
\* documents constructed in one run (ObjectIds handed out)
MaxDocs == 2
\* last instant of the clock; instants are 1..MaxTime
MaxTime == 3
\* largest skip offset tried by a list request
MaxFrom == 2
\* longest orderIds list of a counts request
MaxIds == 2

(***************************************************************************)
(* Values.                                                                 *)
(***************************************************************************)
\* an optional property that was not supplied (undefined / null)
Undefined == "undefined"
\* an optional Date: {} when not supplied, {t} when supplied
NoDate == {}
\* metadata: {} (an object without keys) and an object with keys
EmptyObject == "{}"
SomeObject == "{gateway:stripe}"

Times == 1..MaxTime
OrderIds == {"o1", "o2"}
Procs == {"p1", "p2"}

Currency == {"USD", "EUR", "UAH", "GBP"}
TransactionType == {"PAYMENT", "REFUND"}
TransactionStatus == {"PENDING", "COMPLETED", "FAILED"}
PaymentMethod == {"CARD", "CASH", "PAYPAL"}

NodeEnvs == {"production", "development"}

Min(a, b) == IF a < b THEN a ELSE b
Max(a, b) == IF a > b THEN a ELSE b

(***************************************************************************)
(* Inputs of create.  A CreatePaymentTransactionDto with its eleven        *)
(* properties; the inputs tried vary the order, the supplied time, the     *)
(* currency and the optional properties.                                   *)
(***************************************************************************)
Dto(o, a, c, t, ref, d, by, m) ==
  [orderId |-> o, amount |-> a, currency |-> c, type |-> "PAYMENT",
   status |-> "COMPLETED", paymentMethod |-> "CARD",
   transactionReference |-> ref, description |-> d, transactionTime |-> t,
   processedBy |-> by, metadata |-> m]

MinimalDto(o, t) ==
  Dto(o, 1, Undefined, t, Undefined, Undefined, Undefined, Undefined)

CreateDtos ==
  {MinimalDto("o1", t) : t \in {NoDate} \cup {{x} : x \in Times}}
    \cup {MinimalDto("o2", NoDate)}
    \cup {[Dto("o1", 2, "USD", NoDate, "TXN-1", "note", "admin", SomeObject)
             EXCEPT !.type = "REFUND", !.status = "PENDING",
                    !.paymentMethod = "PAYPAL"]}
    \cup {Dto("o2", 1, "UAH", NoDate, Undefined, Undefined, Undefined,
              EmptyObject)}

(***************************************************************************)
(* OrdersClientService.validateOrderExists.  The outcome of the GET is     *)
(* the response (2xx), or the error firstValueFrom throws: an AxiosError   *)
(* with a response status, an AxiosError without a response (network      *)
(* failure, timeout), or an error that is no AxiosError.                   *)
(***************************************************************************)
LookupOutcomes ==
  {[ok |-> TRUE, axios |-> FALSE, status |-> "200"],
   [ok |-> FALSE, axios |-> TRUE, status |-> "404"],
   [ok |-> FALSE, axios |-> TRUE, status |-> "500"],
   [ok |-> FALSE, axios |-> TRUE, status |-> "none"],
   [ok |-> FALSE, axios |-> FALSE, status |-> "none"]}

Returned(data) == [threw |-> FALSE, error |-> "none", about |-> "none", data |-> data]
Threw(error, about) == [threw |-> TRUE, error |-> error, about |-> about, data |-> "none"]

validateOrderExistsBypassAll(orderId, outcome, env) ==
  IF outcome.ok THEN Returned("OrderResponse")
  ELSE IF outcome.axios /\ outcome.status = "404"
    THEN Threw("NotFoundException", orderId)
    ELSE IF env # "production"
      THEN Returned(Undefined)
      ELSE IF outcome.axios
        THEN Threw("Error", "Failed to validate order")
        ELSE Threw("rethrown", "original error")

validateOrderExistsSwapped(orderId, outcome, env) ==
  IF outcome.ok THEN Returned("OrderResponse")
  ELSE IF outcome.axios
    THEN IF env # "production" THEN Returned(Undefined)
         ELSE IF outcome.status = "404"
           THEN Threw("NotFoundException", orderId)
           ELSE Threw("Error", "Failed to validate order")
    ELSE Threw("rethrown", "original error")

validateOrderExistsLenient(orderId, outcome, env) ==
  IF outcome.ok THEN Returned("OrderResponse")
  ELSE IF outcome.axios
    THEN IF outcome.status = "404"
           THEN Threw("NotFoundException", orderId)
           ELSE Returned(Undefined)
    ELSE Threw("rethrown", "original error")

validateOrderExistsStrict(orderId, outcome, env) ==
  IF outcome.ok THEN Returned("OrderResponse")
  ELSE IF outcome.axios
    THEN IF outcome.status = "404"
           THEN Threw("NotFoundException", orderId)
           ELSE Threw("Error", "Failed to validate order")
    ELSE Threw("rethrown", "original error")

validateOrderExists(orderId, outcome, env) ==
  IF outcome.ok THEN Returned("OrderResponse")
  ELSE IF outcome.axios
    THEN IF outcome.status = "404"
           THEN Threw("NotFoundException", orderId)
           ELSE IF env # "production"
             THEN Returned(Undefined)
             ELSE Threw("Error", "Failed to validate order")
    ELSE Threw("rethrown", "original error")

(***************************************************************************)
(* TransactionsService.create, lines 40-48: the defaults the service       *)
(* writes into the dto after the order was validated.                      *)
(***************************************************************************)
applyDefaultsOverriding(dto, clock) ==
  [dto EXCEPT !.transactionTime = {clock}, !.currency = "UAH"]

applyDefaults(dto, clock) ==
  [dto EXCEPT !.transactionTime = IF @ = NoDate THEN {clock} ELSE @,
              !.currency = IF @ = Undefined THEN "UAH" ELSE @]

(***************************************************************************)
(* new this.transactionModel(dto): the document in memory.  The driver     *)
(* generates _id; the schema's defaults fill currency (UAH) and            *)
(* transactionTime, createdAt, updatedAt (Date.now) where the dto has      *)
(* none; a date is cast to the instant it denotes.  With timestamps: true  *)
(* the pre-save hook keeps the createdAt already set and sets updatedAt    *)
(* to it.                                                                  *)
(***************************************************************************)
CastDate(d, clock) == IF d = NoDate THEN clock ELSE CHOOSE t \in d : TRUE

\* createdAt: the value the dto carries, else the default Date.now; the
\* pre-save hook of timestamps sets updatedAt of a new document to it
Timestamp(dto, clock) ==
  IF "createdAt" \in DOMAIN dto THEN CastDate(dto.createdAt, clock) ELSE clock

newDocument(dto, id, clock) ==
  [_id |-> id,
   orderId |-> dto.orderId,
   amount |-> dto.amount,
   currency |-> IF dto.currency = Undefined THEN "UAH" ELSE dto.currency,
   type |-> dto.type,
   status |-> dto.status,
   paymentMethod |-> dto.paymentMethod,
   transactionReference |-> dto.transactionReference,
   description |-> dto.description,
   transactionTime |-> CastDate(dto.transactionTime, clock),
   processedBy |-> dto.processedBy,
   metadata |-> dto.metadata,
   createdAt |-> Timestamp(dto, clock),
   updatedAt |-> Timestamp(dto, clock)]

(***************************************************************************)
(* save(): what reaches the collection.  The schema is declared without    *)
(* minimize: false, so Mongoose leaves an object without keys out of the   *)
(* inserted document; a later find hydrates the property as undefined.     *)
(***************************************************************************)
persisted(doc) ==
  [doc EXCEPT !.metadata = IF @ = EmptyObject THEN Undefined ELSE @]

(***************************************************************************)
(* TransactionsService.mapToResponseDto                                    *)
(***************************************************************************)
mapToResponseDtoNoActor(transaction) ==
  [id |-> transaction._id,
   orderId |-> transaction.orderId,
   amount |-> transaction.amount,
   currency |-> transaction.currency,
   type |-> transaction.type,
   status |-> transaction.status,
   paymentMethod |-> transaction.paymentMethod,
   transactionReference |-> transaction.transactionReference,
   description |-> transaction.description,
   transactionTime |-> transaction.transactionTime,
   processedBy |-> Undefined,
   metadata |-> transaction.metadata,
   createdAt |-> transaction.createdAt,
   updatedAt |-> transaction.updatedAt]

mapToResponseDto(transaction) ==
  [id |-> transaction._id,
   orderId |-> transaction.orderId,
   amount |-> transaction.amount,
   currency |-> transaction.currency,
   type |-> transaction.type,
   status |-> transaction.status,
   paymentMethod |-> transaction.paymentMethod,
   transactionReference |-> transaction.transactionReference,
   description |-> transaction.description,
   transactionTime |-> transaction.transactionTime,
   processedBy |-> transaction.processedBy,
   metadata |-> transaction.metadata,
   createdAt |-> transaction.createdAt,
   updatedAt |-> transaction.updatedAt]

(***************************************************************************)
(* The queries of findByOrderId (lines 69-74):                             *)
(*   find({orderId}).sort({transactionTime: -1}).skip(from).limit(size)    *)
(* The sort fixes the order of documents with different transactionTime    *)
(* only: every arrangement that is non-increasing in transactionTime is a  *)
(* result the store may produce.                                           *)
(***************************************************************************)
Matching(docs, orderId) == {d \in docs : d.orderId = orderId}

Arrangements(docs) ==
  {s \in [1..Cardinality(docs) -> docs] :
     \A i, j \in 1..Cardinality(docs) : i # j => s[i] # s[j]}

sortAscending(docs) ==
  {s \in Arrangements(docs) :
     \A i, j \in 1..Len(s) : i < j => s[i].transactionTime <= s[j].transactionTime}

sortByTimeDesc(docs) ==
  {s \in Arrangements(docs) :
     \A i, j \in 1..Len(s) : i < j => s[i].transactionTime >= s[j].transactionTime}

skipOneMore(s, n) == SubSeq(s, n + 2, Len(s))

skip(s, n) == SubSeq(s, n + 1, Len(s))

limitOneMore(s, n) == SubSeq(s, 1, Min(n + 1, Len(s)))

limit(s, n) == SubSeq(s, 1, Min(n, Len(s)))

\* transactions.map((tx) => this.mapToResponseDto(tx))
mapAll(s) == [i \in 1..Len(s) |-> mapToResponseDto(s[i])]

(***************************************************************************)
(* getCountsByOrderIds (lines 96-122): the aggregation yields one group    *)
(* per orderId of the list that has documents; the mapping starts at 0     *)
(* for every id of the list and takes the groups' counts.                  *)
(***************************************************************************)
Range(s) == {s[i] : i \in 1..Len(s)}

aggregate(docs, orderIds) ==
  {[_id |-> o, count |-> Cardinality(Matching(docs, o))] :
     o \in {x \in Range(orderIds) : Matching(docs, x) # {}}}

countsWithoutZeros(groups, orderIds) ==
  [o \in {g._id : g \in groups} |->
     (CHOOSE g \in groups : g._id = o).count]

countsFrom(groups, orderIds) ==
  [o \in Range(orderIds) \cup {g._id : g \in groups} |->
     IF \E g \in groups : g._id = o
       THEN (CHOOSE g \in groups : g._id = o).count
       ELSE 0]

(***************************************************************************)
(* The global ValidationPipe on POST /transactions, for the properties of  *)
(* CreatePaymentTransactionDto: @IsUUID orderId, @IsNumber @IsPositive     *)
(* amount, @IsEnum on the enums (currency optional).                       *)
(***************************************************************************)
\* a UUID that is not of version 4, and a string that is no UUID; the
\* ids of OrderIds are version-4 UUIDs
V1Uuid == "o3-v1"
NotUuid == "not-a-uuid"

\* @IsUUID(): a UUID of any version
IsUUIDAnyString(x) == TRUE

IsUUID(x) == x \in OrderIds \cup {V1Uuid}

\* @IsUUID('4', { each: true }), for one element
IsUUID4(x) == x \in OrderIds

IsPositiveOrZero(x) == x >= 0

IsPositive(x) == x > 0

\* the properties CreatePaymentTransactionDto declares with a decorator
CreateDtoProperties ==
  {"orderId", "amount", "currency", "type", "status", "paymentMethod",
   "transactionReference", "description", "transactionTime", "processedBy",
   "metadata"}

\* forbidNonWhitelisted of the global pipe: a property without a decorator
forbidNonWhitelistedOff(body) == TRUE

forbidNonWhitelisted(body) == DOMAIN body \subseteq CreateDtoProperties

validCreateBodyAnyType(body) ==
  /\ forbidNonWhitelisted(body)
  /\ IsUUID(body.orderId)
  /\ IsPositive(body.amount)
  /\ body.currency \in Currency \cup {Undefined}
  /\ body.status \in TransactionStatus
  /\ body.paymentMethod \in PaymentMethod

validCreateBody(body) ==
  /\ forbidNonWhitelisted(body)
  /\ IsUUID(body.orderId)
  /\ IsPositive(body.amount)
  /\ body.currency \in Currency \cup {Undefined}
  /\ body.type \in TransactionType
  /\ body.status \in TransactionStatus
  /\ body.paymentMethod \in PaymentMethod

\* a body with the two timestamps on top of the declared properties
WithTimestamps(body, t) ==
  [k \in DOMAIN body \cup {"createdAt", "updatedAt"} |->
     IF k \in DOMAIN body THEN body[k] ELSE {t}]

\* bodies sent to POST /transactions: a valid one, ones with amount <= 0,
\* one whose orderId is no UUID, ones with a value outside an enum, and one
\* that carries createdAt and updatedAt
PostBodies ==
  {[MinimalDto(o, NoDate) EXCEPT !.amount = a] : o \in {"o1"}, a \in {-1, 0, 1}}
    \cup {MinimalDto(NotUuid, NoDate),
          [MinimalDto("o1", NoDate) EXCEPT !.currency = "BTC"],
          [MinimalDto("o1", NoDate) EXCEPT !.type = "TRANSFER"],
          WithTimestamps(MinimalDto("o1", NoDate), 1)}

(***************************************************************************)
(* GET /transactions: the query, and the GetPaymentTransactionsDto the     *)
(* pipe builds from it (transform: true).  A parameter the query does not  *)
(* carry keeps the value of the property's initialiser.  size and from     *)
(* are {} when the query does not carry them, {n} when it does.            *)
(***************************************************************************)
\* the largest size GetPaymentTransactionsDto admits (@Max)
MaxSize == 100
\* size?: number = 10
DefaultSize == 10
\* from?: number = 0
DefaultFrom == 0

Query(o, size, from) == [orderId |-> o, size |-> size, from |-> from]

GetQueries ==
  {Query(o, {}, {}) : o \in OrderIds \cup {V1Uuid, NotUuid}}
    \cup {Query("o1", {n}, {}) : n \in {0, 1, MaxSize + 1}}
    \cup {Query("o1", {}, {f}) : f \in {-1, 1}}

Supplied(param, default) == IF param = {} THEN default ELSE CHOOSE x \in param : TRUE

toGetDtoUnlimited(query) ==
  [orderId |-> query.orderId,
   size |-> Supplied(query.size, MaxSize),
   from |-> Supplied(query.from, DefaultFrom)]

toGetDto(query) ==
  [orderId |-> query.orderId,
   size |-> Supplied(query.size, DefaultSize),
   from |-> Supplied(query.from, DefaultFrom)]

validGetDto(dto) ==
  /\ IsUUID(dto.orderId)
  /\ dto.size >= 1 /\ dto.size <= MaxSize
  /\ dto.from >= 0

(***************************************************************************)
(* POST /transactions/_counts: @IsArray @ArrayNotEmpty and @IsUUID('4')    *)
(* on each element of orderIds.                                            *)
(***************************************************************************)
CountsBodies ==
  {[orderIds |-> ids] :
     ids \in {<<>>, <<"o1", "o2">>, <<"o1", NotUuid>>, <<V1Uuid>>}}

validCountsBody(body) ==
  /\ Len(body.orderIds) > 0
  /\ \A i \in 1..Len(body.orderIds) : IsUUID4(body.orderIds[i])

(***************************************************************************)
(* State.                                                                  *)
(***************************************************************************)
VARIABLES
  store,     \* the transactions collection: the set of persisted documents
  nextId,    \* the next ObjectId the driver generates
  now,       \* the clock (Date.now)
  nodeEnv,   \* process.env.NODE_ENV
  orders,    \* the main service's orders: per order, when it was removed (none when it is there)
  live,      \* the requests handlers that run
  req,       \* per handler: where it is, its input, what it has done
  created    \* the responses of the successful creates whose records were not deleted

vars == <<store, nextId, now, nodeEnv, orders, live, req, created>>

Ok(body) == [ok |-> TRUE, error |-> "none", about |-> "none", body |-> body]
Failed(error, about) == [ok |-> FALSE, error |-> error, about |-> about, body |-> <<>>]

\* no answer of the lookup yet
NoOutcome == [ok |-> FALSE, axios |-> FALSE, status |-> "pending"]

\* a handler that serves nothing
Idle ==
  [pc |-> "idle", op |-> "none", arg |-> <<>>, began |-> 0, ended |-> 0,
   before |-> {}, outcome |-> NoOutcome, validated |-> Returned("none"),
   doc |-> <<>>, result |-> Failed("none", "none"), lookups |-> 0, saves |-> 0,
   reads |-> 0, raw |-> <<>>, fetched |-> <<>>, seen |-> {}]

Begin(p, op, arg) ==
  [Idle EXCEPT !.op = op, !.arg = arg, !.began = now, !.before = store]

\* a handler that waits for the answer of a query, or holds it, has the
\* collection as it becomes written down: the contents between the start
\* and the return of its call
Observe(r, docs) ==
  IF r.pc \in {"querying", "fetched"} THEN [r EXCEPT !.seen = @ \cup {docs}] ELSE r

Init ==
  /\ store = {}
  /\ nextId = 1
  /\ now = 1
  /\ nodeEnv \in NodeEnvs
  /\ orders = [o \in OrderIds |-> NoDate]
  /\ live = {"p1"}
  /\ req = [p \in Procs |-> Idle]
  /\ created = {}

\* The clock advances between the steps of the handlers.  An advance while
\* an answer waits to be handed over commutes with handing it over, so it
\* is taken after that.
Tick ==
  /\ now < MaxTime
  /\ \A p \in Procs : req[p].pc # "done"
  /\ now' = now + 1
  /\ UNCHANGED <<store, nextId, nodeEnv, orders, live, req, created>>

(***************************************************************************)
(* TransactionsService.create.  Three steps, cut at its two awaits:        *)
(*   createCall     lines 28-38: calls validateOrderExists (the GET)       *)
(*   createValidate lines 36-51: the lookup answers; on success applies    *)
(*                  the defaults, builds the document and calls save()     *)
(*   createSave     lines 51-54: the insert answers; maps the response     *)
(***************************************************************************)
createCallCached(p, dto) ==
  /\ p \in live
  /\ req[p].pc = "idle"
  /\ nextId <= MaxDocs
  /\ req' = [req EXCEPT ![p] =
       [Begin(p, "create", dto)
          EXCEPT !.pc = "validating",
                 !.lookups = IF Matching(store, dto.orderId) = {} THEN 1 ELSE 0]]
  /\ UNCHANGED <<store, nextId, now, nodeEnv, orders, live, created>>

createCall(p, dto) ==
  /\ p \in live
  /\ req[p].pc = "idle"
  /\ nextId <= MaxDocs
  /\ req' = [req EXCEPT ![p] =
       [Begin(p, "create", dto) EXCEPT !.pc = "validating", !.lookups = 1]]
  /\ UNCHANGED <<store, nextId, now, nodeEnv, orders, live, created>>

createValidateThenSave(p, outcome) ==
  /\ req[p].pc = "validating"
  /\ LET v == validateOrderExists(req[p].arg.orderId, outcome, nodeEnv)
     IN /\ req' = [req EXCEPT ![p].pc = "saving", ![p].outcome = outcome,
                     ![p].validated = v, ![p].saves = @ + 1,
                     ![p].doc = newDocument(applyDefaults(req[p].arg, now),
                                            nextId, now)]
        /\ nextId' = nextId + 1
  /\ UNCHANGED <<store, now, nodeEnv, orders, live, created>>

createValidate(p, outcome) ==
  /\ req[p].pc = "validating"
  /\ LET v == validateOrderExists(req[p].arg.orderId, outcome, nodeEnv)
     IN IF v.threw
          THEN /\ req' = [req EXCEPT ![p].pc = "done", ![p].outcome = outcome,
                            ![p].validated = v, ![p].ended = now,
                            ![p].result = Failed(v.error, v.about)]
               /\ UNCHANGED nextId
          ELSE /\ req' = [req EXCEPT ![p].pc = "saving", ![p].outcome = outcome,
                            ![p].validated = v, ![p].saves = @ + 1,
                            ![p].doc = newDocument(applyDefaults(req[p].arg, now),
                                                   nextId, now)]
               /\ nextId' = nextId + 1
  /\ UNCHANGED <<store, now, nodeEnv, orders, live, created>>

createSaveChecked(p, inserted) ==
  /\ req[p].pc = "saving"
  /\ IF inserted /\ orders[req[p].arg.orderId] = NoDate
       THEN /\ store' = store \cup {persisted(req[p].doc)}
            /\ created' = created \cup {mapToResponseDto(req[p].doc)}
            /\ req' = [q \in Procs |->
                 IF q = p
                   THEN [req[p] EXCEPT !.pc = "done", !.ended = now,
                                       !.result = Ok(mapToResponseDto(req[p].doc))]
                   ELSE Observe(req[q], store')]
       ELSE /\ req' = [req EXCEPT ![p].pc = "done", ![p].ended = now,
                         ![p].result = IF inserted
                                         THEN Failed("NotFoundException", req[p].arg.orderId)
                                         ELSE Failed("MongoError", "save")]
            /\ UNCHANGED <<store, created>>
  /\ UNCHANGED <<nextId, now, nodeEnv, orders, live>>

createSaveRetrying(p, inserted) ==
  /\ req[p].pc = "saving"
  /\ IF inserted
       THEN /\ store' = store \cup {persisted(req[p].doc)}
            /\ created' = created \cup {mapToResponseDto(req[p].doc)}
            /\ req' = [q \in Procs |->
                 IF q = p
                   THEN [req[p] EXCEPT !.pc = "done", !.ended = now,
                                       !.result = Ok(mapToResponseDto(req[p].doc))]
                   ELSE Observe(req[q], store')]
       ELSE /\ req' = IF req[p].saves < 2
                        THEN [req EXCEPT ![p].saves = @ + 1]
                        ELSE [req EXCEPT ![p].pc = "done", ![p].ended = now,
                                ![p].result = Failed("MongoError", "save")]
            /\ UNCHANGED <<store, created>>
  /\ UNCHANGED <<nextId, now, nodeEnv, orders, live>>

createSaveOverwriting(p, inserted) ==
  /\ req[p].pc = "saving"
  /\ IF inserted
       THEN /\ store' = req[p].before \cup {persisted(req[p].doc)}
            /\ created' = created \cup {mapToResponseDto(req[p].doc)}
            /\ req' = [q \in Procs |->
                 IF q = p
                   THEN [req[p] EXCEPT !.pc = "done", !.ended = now,
                                       !.result = Ok(mapToResponseDto(req[p].doc))]
                   ELSE Observe(req[q], store')]
       ELSE /\ req' = [req EXCEPT ![p].pc = "done", ![p].ended = now,
                         ![p].result = Failed("MongoError", "save")]
            /\ UNCHANGED <<store, created>>
  /\ UNCHANGED <<nextId, now, nodeEnv, orders, live>>

createSave(p, inserted) ==
  /\ req[p].pc = "saving"
  /\ IF inserted
       THEN /\ store' = store \cup {persisted(req[p].doc)}
            /\ created' = created \cup {mapToResponseDto(req[p].doc)}
            /\ req' = [q \in Procs |->
                 IF q = p
                   THEN [req[p] EXCEPT !.pc = "done", !.ended = now,
                                       !.result = Ok(mapToResponseDto(req[p].doc))]
                   ELSE Observe(req[q], store')]
       ELSE /\ req' = [req EXCEPT ![p].pc = "done", ![p].ended = now,
                         ![p].result = Failed("MongoError", "save")]
            /\ UNCHANGED <<store, created>>
  /\ UNCHANGED <<nextId, now, nodeEnv, orders, live>>

(***************************************************************************)
(* TransactionsController.create behind the ValidationPipe: a body the     *)
(* pipe rejects is answered 400 before the service is called; any other    *)
(* body is handed to TransactionsService.create.                           *)
(***************************************************************************)
postTransactions(p, body) ==
  /\ p \in live
  /\ req[p].pc = "idle"
  /\ nextId <= MaxDocs
  /\ IF validCreateBody(body)
       THEN req' = [req EXCEPT ![p] =
              [Begin(p, "POST /transactions", body)
                 EXCEPT !.pc = "validating", !.lookups = 1, !.raw = body]]
       ELSE req' = [req EXCEPT ![p] =
              [Begin(p, "POST /transactions", body)
                 EXCEPT !.pc = "done", !.ended = now, !.raw = body,
                        !.result = Failed("BadRequestException", "400")]]
  /\ UNCHANGED <<store, nextId, now, nodeEnv, orders, live, created>>

(***************************************************************************)
(* TransactionsService.findByOrderId: one query, then the mapping.         *)
(***************************************************************************)
FindDtos ==
  {[orderId |-> o, size |-> n, from |-> f] :
     o \in OrderIds, n \in {1, 2, MaxSize}, f \in 0..MaxFrom}

findByOrderId(p, dto) ==
  /\ p \in live
  /\ req[p].pc = "idle"
  /\ \E sorted \in sortByTimeDesc(Matching(store, dto.orderId)) :
       LET transactions == limit(skip(sorted, dto.from), dto.size)
       IN req' = [req EXCEPT ![p] =
            [Begin(p, "findByOrderId", dto)
               EXCEPT !.pc = "done", !.ended = now, !.reads = 1,
                      !.result = Ok(mapAll(transactions))]]
  /\ UNCHANGED <<store, nextId, now, nodeEnv, orders, live, created>>

(***************************************************************************)
(* TransactionsService.getCountsByOrderIds: one aggregation, then the      *)
(* mapping built from it.                                                  *)
(***************************************************************************)
RECURSIVE SeqsUpTo(_, _)
SeqsUpTo(S, n) ==
  IF n = 0 THEN {<<>>}
  ELSE LET shorter == SeqsUpTo(S, n - 1)
       IN shorter \cup {Append(s, x) : s \in shorter, x \in S}

CountsDtos == {[orderIds |-> ids] : ids \in SeqsUpTo(OrderIds, MaxIds)}

getCountsByOrderIds(p, dto) ==
  /\ p \in live
  /\ req[p].pc = "idle"
  /\ LET aggregationResult == aggregate(store, dto.orderIds)
     IN req' = [req EXCEPT ![p] =
          [Begin(p, "getCountsByOrderIds", dto)
             EXCEPT !.pc = "done", !.ended = now, !.reads = 1,
                    !.result = Ok(countsFrom(aggregationResult, dto.orderIds))]]
  /\ UNCHANGED <<store, nextId, now, nodeEnv, orders, live, created>>

(***************************************************************************)
(* TransactionsService.getTotalCountByOrderId: countDocuments({orderId})   *)
(***************************************************************************)
countDocuments(docs, orderId) == Cardinality({d \in docs : d.orderId = orderId})

getTotalCountByOrderIdAll(p, orderId) ==
  /\ p \in live
  /\ req[p].pc = "idle"
  /\ req' = [req EXCEPT ![p] =
       [Begin(p, "getTotalCountByOrderId", [orderId |-> orderId])
          EXCEPT !.pc = "done", !.ended = now, !.reads = 1,
                 !.result = Ok(Cardinality(store))]]
  /\ UNCHANGED <<store, nextId, now, nodeEnv, orders, live, created>>

getTotalCountByOrderId(p, orderId) ==
  /\ p \in live
  /\ req[p].pc = "idle"
  /\ req' = [req EXCEPT ![p] =
       [Begin(p, "getTotalCountByOrderId", [orderId |-> orderId])
          EXCEPT !.pc = "done", !.ended = now, !.reads = 1,
                 !.result = Ok(countDocuments(store, orderId))]]
  /\ UNCHANGED <<store, nextId, now, nodeEnv, orders, live, created>>

(***************************************************************************)
(* TransactionsService.deleteByOrderId: deleteMany({orderId})              *)
(***************************************************************************)
deleteByOrderIdSoft(p, orderId) ==
  /\ p \in live
  /\ req[p].pc = "idle"
  /\ store' = {IF d.orderId = orderId THEN [d EXCEPT !.status = "FAILED"] ELSE d :
                 d \in store}
  /\ created' = {r \in created : r.orderId # orderId}
  /\ req' = [req EXCEPT ![p] =
       [Begin(p, "deleteByOrderId", [orderId |-> orderId])
          EXCEPT !.pc = "done", !.ended = now,
                 !.result = Ok(Cardinality(Matching(store, orderId)))]]
  /\ UNCHANGED <<nextId, now, nodeEnv, orders, live>>

deleteByOrderIdOne(p, orderId) ==
  /\ p \in live
  /\ req[p].pc = "idle"
  /\ \E gone \in {g \in SUBSET Matching(store, orderId) :
                    Cardinality(g) = Min(1, Cardinality(Matching(store, orderId)))} :
       /\ store' = store \ gone
       /\ created' = {r \in created : r.id \notin {d._id : d \in gone}}
       /\ req' = [req EXCEPT ![p] =
            [Begin(p, "deleteByOrderId", [orderId |-> orderId])
               EXCEPT !.pc = "done", !.ended = now,
                      !.result = Ok(Cardinality(gone))]]
  /\ UNCHANGED <<nextId, now, nodeEnv, orders, live>>

deleteByOrderId(p, orderId) ==
  /\ p \in live
  /\ req[p].pc = "idle"
  /\ store' = store \ Matching(store, orderId)
  /\ created' = {r \in created : r.orderId # orderId}
  /\ req' = [req EXCEPT ![p] =
       [Begin(p, "deleteByOrderId", [orderId |-> orderId])
          EXCEPT !.pc = "done", !.ended = now,
                 !.result = Ok(Cardinality(Matching(store, orderId)))]]
  /\ UNCHANGED <<nextId, now, nodeEnv, orders, live>>

(***************************************************************************)
(* TransactionsController.findByOrder behind the ValidationPipe: the pipe  *)
(* builds the dto from the query and validates it; a dto it rejects is     *)
(* answered 400, any other is handed to TransactionsService.findByOrderId. *)
(***************************************************************************)
getTransactions(p, query) ==
  /\ p \in live
  /\ req[p].pc = "idle"
  /\ LET dto == toGetDto(query)
         began == [Begin(p, "GET /transactions", dto) EXCEPT !.raw = query]
     IN IF validGetDto(dto)
          THEN \E sorted \in sortByTimeDesc(Matching(store, dto.orderId)) :
                 LET transactions == limit(skip(sorted, dto.from), dto.size)
                 IN req' = [req EXCEPT ![p] =
                      [began EXCEPT !.pc = "done", !.ended = now, !.reads = 1,
                                    !.result = Ok(mapAll(transactions))]]
          ELSE req' = [req EXCEPT ![p] =
                 [began EXCEPT !.pc = "done", !.ended = now,
                               !.result = Failed("BadRequestException", "400")]]
  /\ UNCHANGED <<store, nextId, now, nodeEnv, orders, live, created>>

(***************************************************************************)
(* TransactionsController.getCounts behind the ValidationPipe; the answer  *)
(* wraps the mapping of getCountsByOrderIds in { counts }.                 *)
(***************************************************************************)
postCounts(p, body) ==
  /\ p \in live
  /\ req[p].pc = "idle"
  /\ LET began == [Begin(p, "POST /transactions/_counts", body) EXCEPT !.raw = body]
         aggregationResult == aggregate(store, body.orderIds)
     IN IF validCountsBody(body)
          THEN req' = [req EXCEPT ![p] =
                 [began EXCEPT !.pc = "done", !.ended = now, !.reads = 1,
                               !.result = Ok([counts |->
                                  countsFrom(aggregationResult, body.orderIds)])]]
          ELSE req' = [req EXCEPT ![p] =
                 [began EXCEPT !.pc = "done", !.ended = now,
                               !.result = Failed("BadRequestException", "400")]]
  /\ UNCHANGED <<store, nextId, now, nodeEnv, orders, live, created>>

(***************************************************************************)
(* SeedDataModule.onModuleInit and SeedDataService.seedTransactions: at    *)
(* the start of the application, outside production, a collection without  *)
(* documents is filled by insertMany with generated transactions: the ids  *)
(* of a fixed list of orders, amount in 50..500, currency, status and      *)
(* paymentMethod drawn from the enums, type PAYMENT for the first          *)
(* transaction of an order, transactionTime in the past.  The documents    *)
(* are constructed from the schema as those of create are; no order is     *)
(* looked up.  The model draws a batch of up to the ObjectIds left.        *)
(***************************************************************************)
SeedAmountMin == 50
SeedAmountMax == 500

seedTransaction(o, a, c, ty, st, pm, t) ==
  [Dto(o, a, c, {t}, "TXN-seed", "Payment for order", "system-auto", SomeObject)
     EXCEPT !.type = ty, !.status = st, !.paymentMethod = pm]

SeedTransactions(clock) ==
  {seedTransaction("o1", SeedAmountMin, "UAH", "PAYMENT", "COMPLETED", "CARD", t) :
     t \in {1, clock}}
    \cup {seedTransaction("o1", SeedAmountMax, "GBP", "REFUND", "FAILED", "PAYPAL", clock),
          seedTransaction("o2", SeedAmountMin, "EUR", "PAYMENT", "PENDING", "CASH", clock)}

\* the batches of k transactions: the first one of every order is a PAYMENT
SeedData(k, clock) ==
  {b \in [1..k -> SeedTransactions(clock)] :
     \A i \in 1..k :
       b[i].type # "PAYMENT" =>
         \E j \in 1..(i - 1) : b[j].orderId = b[i].orderId}

insertMany(seedData, firstId, clock) ==
  {persisted(newDocument(seedData[i], firstId + i - 1, clock)) :
     i \in 1..Len(seedData)}

onModuleInitAlways(p) ==
  /\ p \in live
  /\ \A q \in Procs : req[q].pc = "idle"
  /\ IF nodeEnv # "production"
       THEN \E k \in 1..(MaxDocs + 1 - nextId) :
              \E seedData \in SeedData(k, now) :
                /\ store' = store \cup insertMany(seedData, nextId, now)
                /\ nextId' = nextId + k
                /\ req' = [req EXCEPT ![p] =
                     [Begin(p, "onModuleInit", <<>>)
                        EXCEPT !.pc = "done", !.ended = now, !.reads = 1,
                               !.saves = 1, !.result = Ok(k)]]
       ELSE /\ req' = [req EXCEPT ![p] =
                 [Begin(p, "onModuleInit", <<>>)
                    EXCEPT !.pc = "done", !.ended = now, !.result = Ok(0)]]
            /\ UNCHANGED <<store, nextId>>
  /\ UNCHANGED <<now, nodeEnv, orders, live, created>>

\* the seed is inserted with ids the driver has not given yet; the ids are
\* capped at MaxDocs
onModuleInit(p) ==
  /\ p \in live
  /\ \A q \in Procs : req[q].pc = "idle"
  /\ IF nodeEnv # "production"
       THEN IF Cardinality(store) > 0
              THEN /\ req' = [req EXCEPT ![p] =
                        [Begin(p, "onModuleInit", <<>>)
                           EXCEPT !.pc = "done", !.ended = now, !.reads = 1,
                                  !.result = Ok(0)]]
                   /\ UNCHANGED <<store, nextId>>
              ELSE \E k \in 1..(MaxDocs + 1 - nextId) :
                     \E seedData \in SeedData(k, now) :
                       /\ store' = insertMany(seedData, nextId, now)
                       /\ nextId' = nextId + k
                       /\ req' = [req EXCEPT ![p] =
                            [Begin(p, "onModuleInit", <<>>)
                               EXCEPT !.pc = "done", !.ended = now, !.reads = 1,
                                      !.saves = 1, !.result = Ok(k)]]
       ELSE /\ req' = [req EXCEPT ![p] =
                 [Begin(p, "onModuleInit", <<>>)
                    EXCEPT !.pc = "done", !.ended = now, !.result = Ok(0)]]
            /\ UNCHANGED <<store, nextId>>
  /\ UNCHANGED <<now, nodeEnv, orders, live, created>>

\* the handler has answered; it is free for the next request
return(p) ==
  /\ req[p].pc = "done"
  /\ req' = [req EXCEPT ![p] = Idle]
  /\ UNCHANGED <<store, nextId, now, nodeEnv, orders, live, created>>

Next ==
  \/ Tick
  \/ \E p \in Procs, dto \in CreateDtos : createCall(p, dto)
  \/ \E p \in Procs, outcome \in LookupOutcomes : createValidate(p, outcome)
  \/ \E p \in Procs, inserted \in BOOLEAN : createSave(p, inserted)
  \/ \E p \in Procs, body \in PostBodies : postTransactions(p, body)
  \/ \E p \in Procs, dto \in FindDtos : findByOrderId(p, dto)
  \/ \E p \in Procs, dto \in CountsDtos : getCountsByOrderIds(p, dto)
  \/ \E p \in Procs, orderId \in OrderIds : deleteByOrderId(p, orderId)
  \/ \E p \in Procs : return(p)

Spec == Init /\ [][Next]_vars

(***************************************************************************)
(* The application as its clients reach it: the three routes of the        *)
(* controller, and the start of the application (SeedDataModule).          *)
(***************************************************************************)
\* the bodies sent to the application: PostBodies, and a valid one for an
\* order whose id is a UUID of version 1
ApiPostBodies == PostBodies \cup {MinimalDto(V1Uuid, NoDate)}

NextApp ==
  \/ Tick
  \/ \E p \in Procs, body \in ApiPostBodies : postTransactions(p, body)
  \/ \E p \in Procs, outcome \in LookupOutcomes : createValidate(p, outcome)
  \/ \E p \in Procs, inserted \in BOOLEAN : createSave(p, inserted)
  \/ \E p \in Procs, query \in GetQueries : getTransactions(p, query)
  \/ \E p \in Procs, body \in CountsBodies : postCounts(p, body)
  \/ \E p \in Procs : onModuleInit(p)
  \/ \E p \in Procs : return(p)

SpecApp == Init /\ [][NextApp]_vars

(***************************************************************************)
(* Everything that touches the collection: the methods of the service      *)
(* called directly, the routes, and the start of the application.          *)
(***************************************************************************)
NextAll ==
  \/ Next
  \/ \E p \in Procs, query \in GetQueries : getTransactions(p, query)
  \/ \E p \in Procs, body \in CountsBodies : postCounts(p, body)
  \/ \E p \in Procs : onModuleInit(p)

SpecAll == Init /\ [][NextAll]_vars

(***************************************************************************)
(* Two handlers at once.  Node runs the code between two awaits of a       *)
(* handler without interruption, and the steps of the handlers interleave  *)
(* at the awaits.  The reads are cut at their await as create is:          *)
(*   findCall    lines 60-74: sends the query                              *)
(*   findQuery   the store runs find/sort/skip/limit on what it holds      *)
(*   findMap     line 80: the answer is there; maps it                     *)
(*   countsCall  lines 87-109: sends the aggregation                       *)
(*   countsAggregate  the store runs $match/$group on what it holds        *)
(*   countsMap   lines 111-128: the answer is there; builds the mapping    *)
(* The store runs one query on the contents of one instant.  The clock     *)
(* stands still here: the creates carry their transactionTime.             *)
(***************************************************************************)
ConcCreateDtos ==
  {MinimalDto("o1", {1}), MinimalDto("o1", {2}), MinimalDto("o2", {1})}

ConcLookupOutcomes == {x \in LookupOutcomes : x.status \in {"200", "404"}}

ConcFindDtos ==
  {[orderId |-> "o1", size |-> n, from |-> 0] : n \in {1, MaxSize}}

ConcCountsDtos == {[orderIds |-> <<"o1", "o2">>]}

findCall(p, dto) ==
  /\ p \in live
  /\ req[p].pc = "idle"
  /\ req' = [req EXCEPT ![p] =
       [Begin(p, "findByOrderId", dto) EXCEPT !.pc = "querying", !.seen = {store}]]
  /\ UNCHANGED <<store, nextId, now, nodeEnv, orders, live, created>>

findQuery(p) ==
  /\ req[p].pc = "querying"
  /\ req[p].op = "findByOrderId"
  /\ \E sorted \in sortByTimeDesc(Matching(store, req[p].arg.orderId)) :
       req' = [req EXCEPT ![p].pc = "fetched", ![p].reads = @ + 1,
                 ![p].fetched = limit(skip(sorted, req[p].arg.from), req[p].arg.size)]
  /\ UNCHANGED <<store, nextId, now, nodeEnv, orders, live, created>>

findMap(p) ==
  /\ req[p].pc = "fetched"
  /\ req[p].op = "findByOrderId"
  /\ req' = [req EXCEPT ![p].pc = "done", ![p].ended = now,
                ![p].result = Ok(mapAll(req[p].fetched))]
  /\ UNCHANGED <<store, nextId, now, nodeEnv, orders, live, created>>

countsCall(p, dto) ==
  /\ p \in live
  /\ req[p].pc = "idle"
  /\ req' = [req EXCEPT ![p] =
       [Begin(p, "getCountsByOrderIds", dto) EXCEPT !.pc = "querying", !.seen = {store}]]
  /\ UNCHANGED <<store, nextId, now, nodeEnv, orders, live, created>>

countsAggregatePerOrder(p) ==
  /\ req[p].pc = "querying"
  /\ req[p].op = "getCountsByOrderIds"
  /\ req' = [req EXCEPT ![p].pc = "fetched", ![p].reads = @ + 1,
                ![p].fetched =
                   aggregate(Matching(req[p].before, req[p].arg.orderIds[1])
                               \cup (store \ Matching(store, req[p].arg.orderIds[1])),
                             req[p].arg.orderIds)]
  /\ UNCHANGED <<store, nextId, now, nodeEnv, orders, live, created>>

countsAggregate(p) ==
  /\ req[p].pc = "querying"
  /\ req[p].op = "getCountsByOrderIds"
  /\ req' = [req EXCEPT ![p].pc = "fetched", ![p].reads = @ + 1,
                ![p].fetched = aggregate(store, req[p].arg.orderIds)]
  /\ UNCHANGED <<store, nextId, now, nodeEnv, orders, live, created>>

countsMap(p) ==
  /\ req[p].pc = "fetched"
  /\ req[p].op = "getCountsByOrderIds"
  /\ req' = [req EXCEPT ![p].pc = "done", ![p].ended = now,
                ![p].result = Ok(countsFrom(req[p].fetched, req[p].arg.orderIds))]
  /\ UNCHANGED <<store, nextId, now, nodeEnv, orders, live, created>>

InitConc ==
  /\ store = {}
  /\ nextId = 1
  /\ now = 1
  /\ nodeEnv \in NodeEnvs
  /\ orders = [o \in OrderIds |-> NoDate]
  /\ live = Procs
  /\ req = [p \in Procs |-> Idle]
  /\ created = {}

NextConc ==
  \/ \E p \in Procs, dto \in ConcCreateDtos : createCall(p, dto)
  \/ \E p \in Procs, outcome \in ConcLookupOutcomes : createValidate(p, outcome)
  \/ \E p \in Procs, inserted \in BOOLEAN : createSave(p, inserted)
  \/ \E p \in Procs, dto \in ConcFindDtos : findCall(p, dto)
  \/ \E p \in Procs : findQuery(p)
  \/ \E p \in Procs : findMap(p)
  \/ \E p \in Procs, dto \in ConcCountsDtos : countsCall(p, dto)
  \/ \E p \in Procs : countsAggregate(p)
  \/ \E p \in Procs : countsMap(p)
  \/ \E p \in Procs : return(p)

SpecConc == InitConc /\ [][NextConc]_vars

(***************************************************************************)
(* Two clients of TransactionsService reading an order page by page while  *)
(* records are created, and counting them: every handler runs, a read is   *)
(* one query.                                                              *)
(***************************************************************************)
PageSize == 1

PageCreateDtos == {MinimalDto("o1", {t}) : t \in {1, 2}} \cup {MinimalDto("o2", {1})}

PageFindDtos ==
  {[orderId |-> "o1", size |-> PageSize, from |-> k * PageSize] : k \in 0..MaxFrom}

NextPages ==
  \/ \E p \in Procs, dto \in PageCreateDtos : createCall(p, dto)
  \/ \E p \in Procs, outcome \in ConcLookupOutcomes : createValidate(p, outcome)
  \/ \E p \in Procs, inserted \in BOOLEAN : createSave(p, inserted)
  \/ \E p \in Procs, dto \in PageFindDtos : findByOrderId(p, dto)
  \/ \E p \in Procs, dto \in ConcCountsDtos : getCountsByOrderIds(p, dto)
  \/ \E p \in Procs, orderId \in OrderIds : getTotalCountByOrderId(p, orderId)
  \/ \E p \in Procs : return(p)

SpecPages == InitConc /\ [][NextPages]_vars

(***************************************************************************)
(* The main service behind GET /api/orders/:id.  Its orders are its own:   *)
(* it removes one whenever it is asked to, without telling this service.   *)
(* The answer to a lookup is read from its state when the lookup is        *)
(* answered: 2xx only for an order that is there, 404 only for one that is *)
(* not; failures of the service or the network can happen in both cases.   *)
(***************************************************************************)
OrderExists(orderId) == orders[orderId] = NoDate

removeOrder(orderId) ==
  /\ OrderExists(orderId)
  /\ orders' = [orders EXCEPT ![orderId] = {now}]
  /\ UNCHANGED <<store, nextId, now, nodeEnv, live, req, created>>

OrderLookupOutcomes(orderId) ==
  {outcome \in LookupOutcomes :
     /\ outcome.ok => OrderExists(orderId)
     /\ (outcome.axios /\ outcome.status = "404") => ~OrderExists(orderId)}

createValidateAnswered(p, outcome) ==
  /\ req[p].pc = "validating"
  /\ outcome \in OrderLookupOutcomes(req[p].arg.orderId)
  /\ createValidate(p, outcome)

OrdersCreateDtos == {MinimalDto(o, NoDate) : o \in OrderIds}

OrdersFindDtos == {[orderId |-> o, size |-> MaxSize, from |-> 0] : o \in OrderIds}

NextOrders ==
  \/ Tick
  \/ \E orderId \in OrderIds : removeOrder(orderId)
  \/ \E p \in Procs, dto \in OrdersCreateDtos : createCall(p, dto)
  \/ \E p \in Procs, outcome \in LookupOutcomes : createValidateAnswered(p, outcome)
  \/ \E p \in Procs, inserted \in BOOLEAN : createSave(p, inserted)
  \/ \E p \in Procs, dto \in OrdersFindDtos : findByOrderId(p, dto)
  \/ \E p \in Procs : return(p)

SpecOrders == Init /\ [][NextOrders]_vars

(***************************************************************************)
(* Progress of the requests.  The HTTP client of OrdersClientService is    *)
(* registered with timeout: 5000, so the await of the lookup ends, with    *)
(* the response or with an AxiosError without response: createValidate is  *)
(* taken.  MongooseModule.forRootAsync is given the uri only and no query  *)
(* sets maxTimeMS: nothing of the sources ends the await of a storage      *)
(* operation that the store does not answer, so createSave is taken only   *)
(* if the store answers.  A handler that has its answer returns it.        *)
(***************************************************************************)
Fairness ==
  \A p \in Procs :
    /\ WF_vars(\E outcome \in LookupOutcomes : createValidate(p, outcome))
    /\ WF_vars(return(p))

SpecLive == Init /\ [][NextApp]_vars /\ Fairness

(***************************************************************************)
(* Properties.                                                             *)
(***************************************************************************)
IsCreate(p) == req[p].op \in {"create", "POST /transactions"}
Finished(p, op) == req[p].pc = "done" /\ req[p].op = op
FinishedCreate(p) == req[p].pc = "done" /\ IsCreate(p) /\ req[p].lookups = 1
NotFound(outcome) == outcome.axios /\ outcome.status = "404"
Ids(docs) == {d._id : d \in docs}

\* the call added exactly one document, of its order, to the collection
AddedOneFor(p) ==
  \E d \in store :
    /\ d \notin req[p].before
    /\ store = req[p].before \cup {d}
    /\ d.orderId = req[p].arg.orderId

(* C1: a create whose lookup answers 404 fails with NotFoundException      *)
(* naming the orderId, in every NODE_ENV; it attempts no insert and the    *)
(* collection holds what it held before the call.                          *)
C1_NotFoundAborts ==
  \A p \in Procs :
    (FinishedCreate(p) /\ NotFound(req[p].outcome)) =>
      /\ ~req[p].result.ok
      /\ req[p].result.error = "NotFoundException"
      /\ req[p].result.about = req[p].arg.orderId
      /\ req[p].saves = 0
      /\ store = req[p].before

C1_Witness ==
  \E p \in Procs :
    /\ FinishedCreate(p) /\ NotFound(req[p].outcome)
    /\ nodeEnv # "production"
    /\ store # {}

(* C2: in production a lookup that fails otherwise than by 404 makes       *)
(* validateOrderExists throw; create is aborted and nothing is persisted.  *)
C2_ProductionAborts ==
  \A p \in Procs :
    (/\ FinishedCreate(p)
     /\ nodeEnv = "production"
     /\ ~req[p].outcome.ok /\ ~NotFound(req[p].outcome)) =>
      /\ req[p].validated.threw
      /\ ~req[p].result.ok
      /\ req[p].saves = 0
      /\ store = req[p].before

C2_Witness ==
  \E p \in Procs :
    /\ FinishedCreate(p)
    /\ nodeEnv = "production"
    /\ req[p].outcome.axios /\ req[p].outcome.status = "none"
    /\ store # {}

(* C3 as stated: outside production every lookup failure other than 404    *)
(* makes validateOrderExists return without a summary, and create persists *)
(* exactly one record of the order.                                        *)
C3_AnyFailureBypassed ==
  \A p \in Procs :
    (/\ FinishedCreate(p)
     /\ nodeEnv # "production"
     /\ ~req[p].outcome.ok /\ ~NotFound(req[p].outcome)) =>
      /\ ~req[p].validated.threw
      /\ req[p].validated.data = Undefined
      /\ req[p].result.ok
      /\ AddedOneFor(p)

(* C3 amended: outside production a lookup that fails with an AxiosError   *)
(* other than 404 makes validateOrderExists return without a summary and   *)
(* create goes on to one insert: exactly one record of the order is        *)
(* persisted when the insert succeeds, none when it fails.                 *)
C3_AxiosFailureBypassed ==
  \A p \in Procs :
    (/\ FinishedCreate(p)
     /\ nodeEnv # "production"
     /\ req[p].outcome.axios /\ ~NotFound(req[p].outcome)) =>
      /\ ~req[p].validated.threw
      /\ req[p].validated.data = Undefined
      /\ req[p].saves = 1
      /\ req[p].result.ok => AddedOneFor(p)
      /\ ~req[p].result.ok =>
           (req[p].result.error = "MongoError" /\ store = req[p].before)

C3_Witness ==
  \E p \in Procs :
    /\ FinishedCreate(p)
    /\ nodeEnv # "production"
    /\ req[p].outcome.axios /\ req[p].outcome.status = "500"
    /\ req[p].result.ok
    /\ AddedOneFor(p)

(* C4: findByOrderId returns only records of the requested order, in      *)
(* non-increasing transactionTime order; when the order's records have     *)
(* pairwise different times and the page holds them all, the result lists  *)
(* them strictly from the latest to the earliest, whatever the creation    *)
(* order.                                                                  *)
C4_OrderedByTimeDesc ==
  \A p \in Procs :
    Finished(p, "findByOrderId") =>
      LET r == req[p].result.body
          mine == Matching(req[p].before, req[p].arg.orderId)
      IN /\ \A i \in 1..Len(r) :
              r[i].orderId = req[p].arg.orderId /\ r[i].id \in Ids(mine)
         /\ \A i, j \in 1..Len(r) :
              i < j => r[i].transactionTime >= r[j].transactionTime
         /\ (/\ \A d, e \in mine : d # e => d.transactionTime # e.transactionTime
             /\ req[p].arg.from = 0
             /\ req[p].arg.size >= Cardinality(mine)) =>
              /\ {r[i].id : i \in 1..Len(r)} = Ids(mine)
              /\ \A i, j \in 1..Len(r) :
                   i < j => r[i].transactionTime > r[j].transactionTime

C4_Witness ==
  \E p \in Procs :
    /\ Finished(p, "findByOrderId")
    /\ Len(req[p].result.body) = 2
    /\ req[p].result.body[1].transactionTime > req[p].result.body[2].transactionTime
    /\ req[p].result.body[1].id > req[p].result.body[2].id

(* C5: with n records of the order, findByOrderId(size, from) returns      *)
(* min(size, max(0, n - from)) records, the ones at positions from ..      *)
(* from+size-1 of the order's time-descending sequence, each once; the     *)
(* result is empty, not an error, when from >= n.                          *)
C5_Page ==
  \A p \in Procs :
    Finished(p, "findByOrderId") =>
      LET r == req[p].result.body
          mine == Matching(req[p].before, req[p].arg.orderId)
          n == Cardinality(mine)
          from == req[p].arg.from
          size == req[p].arg.size
          Later(t) == Cardinality({d \in mine : d.transactionTime > t})
          NotEarlier(t) == Cardinality({d \in mine : d.transactionTime >= t})
      IN /\ req[p].result.ok
         /\ Len(r) = Min(size, Max(0, n - from))
         /\ \A i \in 1..Len(r) :
              /\ \E d \in mine : r[i] = mapToResponseDto(d)
              /\ Later(r[i].transactionTime) < from + i
              /\ from + i <= NotEarlier(r[i].transactionTime)
         /\ \A i, j \in 1..Len(r) : i # j => r[i].id # r[j].id

C5_Witness ==
  \E p \in Procs :
    /\ Finished(p, "findByOrderId")
    /\ req[p].arg.from > 0
    /\ Len(req[p].result.body) > 0
    /\ Len(req[p].result.body) < req[p].arg.size
    /\ req[p].arg.size < MaxSize

(* C6: getCountsByOrderIds returns a mapping whose keys are exactly the    *)
(* distinct ids of the list, each with the number of records of that       *)
(* order, 0 when it has none; the empty list gives the empty mapping.      *)
C6_Counts ==
  \A p \in Procs :
    Finished(p, "getCountsByOrderIds") =>
      LET counts == req[p].result.body
          orderIds == req[p].arg.orderIds
      IN /\ req[p].result.ok
         /\ DOMAIN counts = {orderIds[i] : i \in 1..Len(orderIds)}
         /\ \A o \in DOMAIN counts :
              counts[o] = Cardinality({d \in req[p].before : d.orderId = o})
         /\ orderIds = <<>> => DOMAIN counts = {}

C6_Witness ==
  \E p \in Procs :
    /\ Finished(p, "getCountsByOrderIds")
    /\ Len(req[p].arg.orderIds) = 2
    /\ \E a, b \in DOMAIN req[p].result.body :
         req[p].result.body[a] = 0 /\ req[p].result.body[b] > 0

(* C7: the record a successful create returns has an id generated by the   *)
(* system, not held by any earlier record, and every submitted property    *)
(* with the submitted value.                                               *)
C7_EchoesSubmitted ==
  \A p \in Procs :
    (FinishedCreate(p) /\ req[p].result.ok) =>
      LET r == req[p].result.body
          dto == req[p].arg
      IN /\ r.id \in 1..MaxDocs
         /\ r.id \notin Ids(req[p].before)
         /\ r.orderId = dto.orderId
         /\ r.amount = dto.amount
         /\ r.type = dto.type
         /\ r.status = dto.status
         /\ r.paymentMethod = dto.paymentMethod
         /\ dto.currency # Undefined => r.currency = dto.currency
         /\ dto.transactionTime # NoDate => {r.transactionTime} = dto.transactionTime
         /\ dto.transactionReference # Undefined =>
              r.transactionReference = dto.transactionReference
         /\ dto.description # Undefined => r.description = dto.description
         /\ dto.processedBy # Undefined => r.processedBy = dto.processedBy
         /\ dto.metadata # Undefined => r.metadata = dto.metadata

C7_Witness ==
  \E p \in Procs :
    /\ FinishedCreate(p) /\ req[p].result.ok
    /\ req[p].arg.processedBy # Undefined
    /\ req[p].arg.metadata = SomeObject
    /\ req[p].arg.currency = "USD"
    /\ req[p].before # {}

(* C8: a create without currency persists and returns UAH; a create        *)
(* without transactionTime persists and returns an instant between the     *)
(* start and the return of the call; a supplied currency or                *)
(* transactionTime is persisted and returned as supplied.                  *)
C8_Defaults ==
  \A p \in Procs :
    (FinishedCreate(p) /\ req[p].result.ok) =>
      LET r == req[p].result.body
          dto == req[p].arg
      IN \E d \in store :
           /\ d._id = r.id
           /\ d.currency = r.currency
           /\ d.transactionTime = r.transactionTime
           /\ IF dto.currency = Undefined
                THEN r.currency = "UAH"
                ELSE r.currency = dto.currency
           /\ IF dto.transactionTime = NoDate
                THEN req[p].began <= r.transactionTime
                       /\ r.transactionTime <= req[p].ended
                ELSE {r.transactionTime} = dto.transactionTime

C8_Witness ==
  \E p \in Procs :
    /\ FinishedCreate(p) /\ req[p].result.ok
    /\ req[p].arg.currency = Undefined
    /\ req[p].arg.transactionTime = NoDate
    /\ req[p].began < req[p].result.body.transactionTime
    /\ req[p].result.body.transactionTime < req[p].ended

(* C9: after a successful create, findByOrderId of that order with         *)
(* from = 0 and any size >= 1 yields a record equal in all fields to the   *)
(* one create returned.  Stated for the created record that is the latest  *)
(* of its order, which every such page must hold.                          *)
C9_RoundTrip ==
  \A p \in Procs :
    (Finished(p, "findByOrderId") /\ req[p].arg.from = 0) =>
      \A c \in created :
        (/\ c.orderId = req[p].arg.orderId
         /\ c.id \in Ids(req[p].before)
         /\ \A d \in Matching(req[p].before, c.orderId) :
              d._id # c.id => d.transactionTime < c.transactionTime) =>
          \E i \in 1..Len(req[p].result.body) : req[p].result.body[i] = c

(* C10: POST /transactions with amount <= 0 is answered 400; the service   *)
(* is not called and the collection is unchanged.                          *)
C10_NonPositiveAmountRejected ==
  \A p \in Procs :
    (Finished(p, "POST /transactions") /\ req[p].arg.amount <= 0) =>
      /\ ~req[p].result.ok
      /\ req[p].result.error = "BadRequestException"
      /\ req[p].lookups = 0
      /\ req[p].saves = 0
      /\ store = req[p].before

C10_Witness ==
  \E p \in Procs :
    /\ Finished(p, "POST /transactions")
    /\ req[p].arg.amount = 0
    /\ store # {}

HttpOps == {"POST /transactions", "GET /transactions", "POST /transactions/_counts"}

\* the request as it was sent fails one of the rules for its route
InvalidRequest(p) ==
  LET raw == req[p].raw
  IN CASE req[p].op = "POST /transactions" ->
            \/ raw.orderId = NotUuid
            \/ raw.amount <= 0
            \/ raw.currency \notin {"USD", "EUR", "UAH", "GBP", Undefined}
            \/ raw.type \notin {"PAYMENT", "REFUND"}
            \/ raw.status \notin {"PENDING", "COMPLETED", "FAILED"}
            \/ raw.paymentMethod \notin {"CARD", "CASH", "PAYPAL"}
       [] req[p].op = "GET /transactions" ->
            \/ raw.orderId = NotUuid
            \/ \E n \in raw.size : n < 1 \/ n > 100
            \/ \E f \in raw.from : f < 0
       [] req[p].op = "POST /transactions/_counts" ->
            \/ raw.orderIds = <<>>
            \/ \E i \in 1..Len(raw.orderIds) : raw.orderIds[i] \notin OrderIds
       [] OTHER -> FALSE

(* C11: a request to one of the three routes that is invalid (orderId no   *)
(* UUID, amount <= 0, a value outside an enum, size outside 1..100,        *)
(* from < 0, orderIds empty or with a malformed element) is answered 400   *)
(* at once: its handler never waits for the lookup or the store, and it    *)
(* has made no lookup call, no insert and no query; the collection is      *)
(* what it was.                                                            *)
C11_InvalidRejectedFirst ==
  \A p \in Procs :
    (req[p].op \in HttpOps /\ InvalidRequest(p)) =>
      /\ req[p].pc = "done"
      /\ ~req[p].result.ok
      /\ req[p].result.error = "BadRequestException"
      /\ req[p].lookups = 0
      /\ req[p].saves = 0
      /\ req[p].reads = 0
      /\ store = req[p].before

C11_Witness ==
  \E p \in Procs :
    /\ Finished(p, "POST /transactions/_counts")
    /\ Len(req[p].raw.orderIds) = 2
    /\ InvalidRequest(p)
    /\ store # {}

(* C12: every record of the collection has amount > 0, currency in {USD,   *)
(* EUR, UAH, GBP}, type in {PAYMENT, REFUND}, status in {PENDING,          *)
(* COMPLETED, FAILED} and paymentMethod in {CARD, CASH, PAYPAL}, after any *)
(* sequence of requests to the API and of starts with seeding.             *)
C12_RecordsWellFormed ==
  \A d \in store :
    /\ d.amount > 0
    /\ d.currency \in {"USD", "EUR", "UAH", "GBP"}
    /\ d.type \in {"PAYMENT", "REFUND"}
    /\ d.status \in {"PENDING", "COMPLETED", "FAILED"}
    /\ d.paymentMethod \in {"CARD", "CASH", "PAYPAL"}

C12_Witness ==
  \E p \in Procs :
    /\ Finished(p, "POST /transactions") /\ req[p].result.ok
    /\ \E d \in store : d._id = req[p].result.body.id
    /\ \E d \in req[p].before : d.transactionReference = "TXN-seed"

(* C13: a record of the collection never changes: after every step each    *)
(* record is in the collection as it was, or no record with its id is.     *)
C13_Immutable ==
  [][\A d \in store : d \in store' \/ (\A e \in store' : e._id # d._id)]_vars

C13_Witness ==
  \E p \in Procs :
    /\ Finished(p, "deleteByOrderId")
    /\ req[p].result.body >= 1
    /\ \E d \in store : d \in req[p].before

\* the step inserts d as the document of a create whose validateOrderExists
\* had returned
InsertedByValidatedCreate(d) ==
  \E p \in Procs :
    /\ IsCreate(p)
    /\ req[p].pc = "saving" /\ req'[p].pc = "done"
    /\ persisted(req[p].doc) = d
    /\ req[p].lookups = 1
    /\ req[p].outcome # NoOutcome
    /\ ~req[p].validated.threw

\* the step inserts d as one of the transactions seeded at a start
InsertedBySeeding(d) ==
  \E p \in Procs :
    /\ req[p].pc = "idle"
    /\ req'[p].pc = "done" /\ req'[p].op = "onModuleInit"
    /\ nodeEnv # "production"
    /\ store = {}
    /\ req[p].lookups = 0 /\ req'[p].lookups = 0

\* the step is a deleteByOrderId that removes the records of its order only
RemovedByDelete ==
  \E p \in Procs :
    /\ req[p].pc = "idle"
    /\ req'[p].pc = "done" /\ req'[p].op = "deleteByOrderId"
    /\ \A d \in store \ store' : d.orderId = req'[p].arg.orderId

(* C14 as stated: every record enters the collection as the insert of a    *)
(* create whose order validation had completed without error, and leaves   *)
(* it by deleteByOrderId only.                                             *)
C14_OnlyValidatedCreates ==
  [][/\ \A d \in store' \ store : InsertedByValidatedCreate(d)
     /\ store \ store' # {} => RemovedByDelete]_vars

(* C14 amended: every record enters the collection as the insert of a      *)
(* create whose validateOrderExists had returned without throwing, or as   *)
(* one of the transactions seeded at a start of the application outside    *)
(* production into a collection without records, for which no order is     *)
(* looked up; records leave it by deleteByOrderId only.                    *)
C14_CreatesAndSeeding ==
  [][/\ \A d \in store' \ store :
          InsertedByValidatedCreate(d) \/ InsertedBySeeding(d)
     /\ store \ store' # {} => RemovedByDelete]_vars

C14_Witness ==
  \E p \in Procs :
    /\ Finished(p, "onModuleInit")
    /\ req[p].result.body >= 1
    /\ Cardinality(store) = req[p].result.body
    /\ req[p].lookups = 0

(* C15: deleteByOrderId removes every record of the order and returns how  *)
(* many it removed, 0 when the order had none; afterwards the order has no *)
(* record and its count is 0, and the records and the counts of every      *)
(* other order are what they were.                                         *)
C15_DeleteFrame ==
  \A p \in Procs :
    Finished(p, "deleteByOrderId") =>
      LET o == req[p].arg.orderId
          before == req[p].before
          Count(docs, x) == countsFrom(aggregate(docs, <<x>>), <<x>>)[x]
      IN /\ req[p].result.ok
         /\ req[p].result.body = Cardinality(Matching(before, o))
         /\ Matching(before, o) = {} => (req[p].result.body = 0 /\ store = before)
         /\ Matching(store, o) = {}
         /\ Count(store, o) = 0
         /\ \A x \in OrderIds \ {o} :
              /\ Matching(store, x) = Matching(before, x)
              /\ Count(store, x) = Count(before, x)
         /\ store \subseteq before

C15_Witness ==
  \E p \in Procs :
    /\ Finished(p, "deleteByOrderId")
    /\ req[p].result.body = 1
    /\ Cardinality(req[p].before) = 2
    /\ Cardinality(store) = 1

\* two creates of which neither began after the other's insert
Concurrent(p, q) ==
  /\ req[p].result.body.id \notin Ids(req[q].before)
  /\ req[q].result.body.id \notin Ids(req[p].before)

(* C16: when two creates of the same order run at once and both succeed,   *)
(* whatever the interleaving of their lookups and inserts, the two records *)
(* have different ids, both are in the collection, and the order has       *)
(* exactly two records more than it had when the later of the two calls    *)
(* began.                                                                  *)
C16_ConcurrentCreatesBothKept ==
  \A p, q \in Procs :
    (/\ p # q
     /\ FinishedCreate(p) /\ req[p].result.ok
     /\ FinishedCreate(q) /\ req[q].result.ok
     /\ req[p].arg.orderId = req[q].arg.orderId
     /\ Concurrent(p, q)) =>
      LET o == req[p].arg.orderId
          a == req[p].result.body
          b == req[q].result.body
      IN /\ a.id # b.id
         /\ \E d \in store : mapToResponseDto(d) = a
         /\ \E d \in store : mapToResponseDto(d) = b
         /\ Cardinality(Matching(store, o)) =
              Cardinality(Matching(req[p].before \cup req[q].before, o)) + 2
         /\ store = req[p].before \cup req[q].before
                      \cup {d \in store : d._id \in {a.id, b.id}}

\* the second lookup was answered before the first insert, and the first
\* insert was answered before the second
C16_Witness ==
  \E p, q \in Procs :
    /\ p # q
    /\ FinishedCreate(p) /\ req[p].result.ok
    /\ FinishedCreate(q) /\ req[q].result.ok
    /\ req[p].arg.orderId = req[q].arg.orderId
    /\ Concurrent(p, q)
    /\ req[p].result.body.id < req[q].result.body.id
    /\ req[p].result.body.transactionTime < req[q].result.body.transactionTime

\* the page a find of dto returns on the contents docs
PagesOf(docs, dto) ==
  {mapAll(limit(skip(sorted, dto.from), dto.size)) :
     sorted \in sortByTimeDesc(Matching(docs, dto.orderId))}

(* C17: a findByOrderId or getCountsByOrderIds that runs while creates     *)
(* insert returns what the collection held at one instant between the      *)
(* start and the return of the call: the page of that contents, or for     *)
(* every id of the list the number of records of that contents, 0 where    *)
(* it had none.                                                            *)
C17_ReadsOneInstant ==
  \A p \in Procs :
    /\ Finished(p, "findByOrderId") =>
         \E docs \in req[p].seen : req[p].result.body \in PagesOf(docs, req[p].arg)
    /\ Finished(p, "getCountsByOrderIds") =>
         \E docs \in req[p].seen :
           /\ DOMAIN req[p].result.body = Range(req[p].arg.orderIds)
           /\ \A o \in Range(req[p].arg.orderIds) :
                req[p].result.body[o] = Cardinality(Matching(docs, o))

\* a count that saw the first of two inserts made during the call
C17_Witness ==
  \E p \in Procs :
    /\ Finished(p, "getCountsByOrderIds")
    /\ Cardinality(req[p].seen) = 3
    /\ req[p].before = {}
    /\ req[p].result.body["o1"] = 1
    /\ req[p].result.body["o2"] = 0
    /\ Cardinality(store) = 2

(* C18: every request that waits, for the lookup or for the store, comes   *)
(* to its answer: both waits end, by the answer or by a timeout.           *)
C18_EveryRequestReturns ==
  \A p \in Procs :
    (req[p].pc \in {"validating", "saving"}) ~> (req[p].pc = "done")

(* C19: every record of the collection has createdAt and updatedAt set by  *)
(* the system, createdAt <= updatedAt and not after the present; the       *)
(* record of a create has its createdAt between the start and the return   *)
(* of the call; a POST /transactions that carries createdAt or updatedAt   *)
(* stores nothing.                                                         *)
C19_SystemTimestamps ==
  /\ \A d \in store :
       d.createdAt \in Times /\ d.createdAt <= d.updatedAt /\ d.updatedAt <= now
  /\ \A p \in Procs :
       (FinishedCreate(p) /\ req[p].result.ok) =>
         \E d \in store :
           /\ d._id = req[p].result.body.id
           /\ req[p].began <= d.createdAt /\ d.createdAt <= req[p].ended
           /\ req[p].result.body.createdAt = d.createdAt
           /\ req[p].result.body.updatedAt = d.updatedAt
  /\ \A p \in Procs :
       (/\ req[p].op = "POST /transactions"
        /\ {"createdAt", "updatedAt"} \cap DOMAIN req[p].raw # {}) =>
         /\ req[p].pc = "done"
         /\ ~req[p].result.ok
         /\ req[p].saves = 0
         /\ store = req[p].before

C19_Witness ==
  \E p \in Procs :
    /\ Finished(p, "POST /transactions")
    /\ "createdAt" \in DOMAIN req[p].raw
    /\ req[p].raw.createdAt # {now}
    /\ \E d \in store : d.createdAt = now /\ d.transactionReference = Undefined

(* C20: GET /transactions without size behaves as with size = 10, without  *)
(* from as with from = 0: the service is called with those values, and     *)
(* the answer is the page of at most 10 records of the order from the      *)
(* given offset, the latest first.                                         *)
C20_GetDefaults ==
  \A p \in Procs :
    (Finished(p, "GET /transactions") /\ req[p].result.ok) =>
      LET query == req[p].raw
          size == IF query.size = {} THEN 10 ELSE CHOOSE n \in query.size : TRUE
          from == IF query.from = {} THEN 0 ELSE CHOOSE f \in query.from : TRUE
          r == req[p].result.body
          n == Cardinality(Matching(req[p].before, query.orderId))
      IN /\ req[p].arg = [orderId |-> query.orderId, size |-> size, from |-> from]
         /\ r \in PagesOf(req[p].before,
                           [orderId |-> query.orderId, size |-> size, from |-> from])
         /\ Len(r) = Min(size, Max(0, n - from))
         /\ \A i, j \in 1..Len(r) :
              i < j => r[i].transactionTime >= r[j].transactionTime

C20_Witness ==
  \E p \in Procs :
    /\ Finished(p, "GET /transactions") /\ req[p].result.ok
    /\ req[p].raw.size = {} /\ req[p].raw.from = {}
    /\ Len(req[p].result.body) = 2
    /\ req[p].result.body[1].transactionTime > req[p].result.body[2].transactionTime

(* C21: create takes its defaults before it calls the lookup: a            *)
(* transactionTime that create has defaulted is not later than the         *)
(* instant at which the call began and the lookup was sent.                *)
C21_DefaultsBeforeLookup ==
  \A p \in Procs :
    (/\ IsCreate(p)
     /\ req[p].saves >= 1
     /\ req[p].arg.transactionTime = NoDate) =>
      req[p].doc.transactionTime <= req[p].began

(* C22: a create sends one lookup, whatever the lookup answers and         *)
(* whatever the collection holds of the order; findByOrderId,              *)
(* getCountsByOrderIds and deleteByOrderId send none.                      *)
C22_OneLookupPerCreate ==
  \A p \in Procs :
    /\ (req[p].op = "create" /\ req[p].pc # "idle") => req[p].lookups = 1
    /\ (/\ req[p].op = "POST /transactions"
        /\ req[p].result.error # "BadRequestException") => req[p].lookups = 1
    /\ req[p].op \in {"findByOrderId", "getCountsByOrderIds", "deleteByOrderId"} =>
         req[p].lookups = 0

C22_Witness ==
  \E p \in Procs :
    /\ Finished(p, "create")
    /\ req[p].outcome.axios /\ req[p].outcome.status = "500"
    /\ Matching(req[p].before, req[p].arg.orderId) # {}
    /\ req[p].lookups = 1

(* C23: a create whose insert fails hands the failure of the insert to     *)
(* its caller; it has tried the insert once and sent the lookup once, and  *)
(* the collection holds no record of the call: it is what it was.          *)
C23_FailedInsertLeavesNothing ==
  \A p \in Procs :
    (/\ req[p].pc = "done" /\ IsCreate(p)
     /\ req[p].outcome # NoOutcome /\ ~req[p].validated.threw
     /\ ~req[p].result.ok) =>
      /\ req[p].result.error = "MongoError"
      /\ req[p].saves = 1
      /\ req[p].lookups = 1
      /\ \A d \in store : d._id # req[p].doc._id
      /\ store = req[p].before
      /\ \A r \in created : r.id # req[p].doc._id

C23_Witness ==
  \E p \in Procs :
    /\ req[p].pc = "done" /\ IsCreate(p)
    /\ req[p].outcome.ok
    /\ ~req[p].result.ok
    /\ req[p].result.error = "MongoError"
    /\ store # {}

(* C24: when the lookup of a create ends with an error that is no          *)
(* AxiosError, validateOrderExists throws that same error, whatever        *)
(* NODE_ENV is: the create fails with it, attempts no insert and leaves    *)
(* the collection as it was.                                               *)
C24_OtherErrorsRethrown ==
  \A p \in Procs :
    (/\ req[p].pc = "done" /\ IsCreate(p)
     /\ req[p].outcome # NoOutcome
     /\ ~req[p].outcome.ok /\ ~req[p].outcome.axios) =>
      /\ req[p].validated = Threw("rethrown", "original error")
      /\ req[p].validated = validateOrderExists(req[p].arg.orderId, req[p].outcome, "production")
      /\ req[p].validated = validateOrderExists(req[p].arg.orderId, req[p].outcome, "development")
      /\ ~req[p].result.ok
      /\ req[p].result.error = "rethrown"
      /\ req[p].saves = 0
      /\ req[p].doc = <<>>
      /\ store = req[p].before

C24_Witness ==
  \E p \in Procs :
    /\ req[p].pc = "done" /\ IsCreate(p)
    /\ req[p].outcome # NoOutcome
    /\ ~req[p].outcome.ok /\ ~req[p].outcome.axios
    /\ nodeEnv # "production"
    /\ req[p].result.error = "rethrown"
    /\ store # {}

(* C25: the insert of a create does not look at the order again.  When the *)
(* order was removed upstream after the lookup answered with the order and *)
(* before the insert, the insert decides alone: it adds the record and the *)
(* create succeeds, or the store fails and the create fails with the       *)
(* store's error.  The collection then holds a record of an order that is  *)
(* no longer there.                                                        *)
C25_ValidationAndInsertNotAtomic ==
  [][\A p \in Procs :
       (/\ req[p].pc = "saving" /\ req[p].op = "create"
        /\ req[p].outcome.ok
        /\ ~OrderExists(req[p].arg.orderId)
        /\ req'[p].pc = "done") =>
         \/ /\ req'[p].result = Ok(mapToResponseDto(req[p].doc))
            /\ store' = store \cup {persisted(req[p].doc)}
            /\ persisted(req[p].doc) \notin store
            /\ persisted(req[p].doc).orderId = req[p].arg.orderId
         \/ /\ req'[p].result = Failed("MongoError", "save")
            /\ store' = store]_vars

C25_Witness ==
  \E p \in Procs :
    /\ req[p].pc = "done" /\ req[p].op = "create"
    /\ req[p].outcome.ok
    /\ req[p].result.ok
    /\ ~OrderExists(req[p].arg.orderId)
    /\ \A t \in orders[req[p].arg.orderId] : req[p].doc.createdAt < t /\ t < req[p].ended
    /\ \E d \in store : d._id = req[p].doc._id /\ d.orderId = req[p].arg.orderId

(* C26: the creates of an order run one after another, none with a         *)
(* transactionTime of its own; findByOrderId, asked for the whole list,    *)
(* returns their records latest created first.                             *)
C26_ReverseCreationOrder ==
  \A p \in Procs :
    (/\ Finished(p, "findByOrderId") /\ req[p].result.ok
     /\ req[p].arg.from = 0
     /\ req[p].arg.size >= Cardinality(Matching(req[p].before, req[p].arg.orderId))) =>
      LET transactions == req[p].result.body
      IN \A i, j \in 1..Len(transactions) :
           i < j => transactions[i].id > transactions[j].id

(* C27: two pages of one order, read with the same size at different       *)
(* offsets from a collection that did not change between the two reads,    *)
(* share no record, whatever the transactionTimes of the records.          *)
C27_PagesDisjoint ==
  \A p, q \in Procs :
    (/\ p # q
     /\ Finished(p, "findByOrderId") /\ Finished(q, "findByOrderId")
     /\ req[p].result.ok /\ req[q].result.ok
     /\ req[p].arg.orderId = req[q].arg.orderId
     /\ req[p].arg.size = req[q].arg.size
     /\ req[p].arg.from # req[q].arg.from
     /\ req[p].before = store /\ req[q].before = store) =>
      LET first == req[p].result.body
          second == req[q].result.body
      IN \A i \in 1..Len(first), j \in 1..Len(second) : first[i].id # second[j].id

(* C28: seeding at start-up inserts records only outside production and    *)
(* only into an empty collection, and then at least one; in production,    *)
(* and on a collection that holds a record, it leaves the collection as    *)
(* it is.  A seeding that follows a seeding therefore changes nothing.     *)
C28_SeedingOnlyWhenEmpty ==
  \A p \in Procs :
    Finished(p, "onModuleInit") =>
      /\ (nodeEnv = "production" \/ req[p].before # {}) =>
           /\ store = req[p].before
           /\ req[p].saves = 0
           /\ req[p].result = Ok(0)
      /\ (nodeEnv # "production" /\ req[p].before = {}) =>
           /\ store # {}
           /\ Cardinality(store) = req[p].result.body
           /\ \A d \in store : d.transactionReference = "TXN-seed"
      /\ nodeEnv # "production" => store # {}

C28_Witness ==
  \E p \in Procs :
    /\ Finished(p, "onModuleInit")
    /\ nodeEnv # "production"
    /\ req[p].before # {}
    /\ \A d \in req[p].before : d.transactionReference = "TXN-seed"
    /\ store = req[p].before
    /\ req[p].reads = 1

\* the records a client collects that reads pages of the given size from
\* offset from on, until a page comes back empty, from an order of n records
RECURSIVE PagedTotal(_, _, _)
PagedTotal(n, size, from) ==
  IF from >= n THEN 0 ELSE Min(size, n - from) + PagedTotal(n, size, from + size)

(* C29: on a collection that does not change between the calls, the count  *)
(* getCountsByOrderIds gives for an order is the number                    *)
(* getTotalCountByOrderId returns for it, and every page findByOrderId     *)
(* returns for the order holds as many records as that number leaves for   *)
(* its offset, so that the pages read one after the other add up to it.    *)
C29_CountsAgree ==
  \A p, q \in Procs :
    (/\ p # q
     /\ Finished(p, "getTotalCountByOrderId") /\ req[p].result.ok
     /\ req[p].before = store /\ req[q].before = store) =>
      LET orderId == req[p].arg.orderId
          total == req[p].result.body
      IN /\ (/\ Finished(q, "getCountsByOrderIds") /\ req[q].result.ok
              /\ orderId \in Range(req[q].arg.orderIds)) =>
               req[q].result.body[orderId] = total
         /\ (/\ Finished(q, "findByOrderId") /\ req[q].result.ok
              /\ req[q].arg.orderId = orderId) =>
               /\ Len(req[q].result.body)
                    = Min(req[q].arg.size, Max(0, total - req[q].arg.from))
               /\ \A i \in 1..Len(req[q].result.body) :
                    req[q].result.body[i].orderId = orderId
               /\ PagedTotal(total, req[q].arg.size, 0) = total

C29_Witness ==
  \E p, q \in Procs :
    /\ Finished(p, "getTotalCountByOrderId")
    /\ Finished(q, "getCountsByOrderIds")
    /\ req[p].before = store /\ req[q].before = store
    /\ req[p].result.body = 2
    /\ req[q].result.body[req[p].arg.orderId] = 2

(* C30: an orderId under which POST /transactions has persisted a record   *)
(* passes the validation of GET /transactions and of                       *)
(* POST /transactions/_counts: a request for such ids, otherwise valid, is *)
(* answered with the list or the counts, never rejected.                   *)
C30_SameUuidCheck ==
  \A p \in Procs :
    /\ (/\ Finished(p, "GET /transactions")
        /\ req[p].raw.size = {} /\ req[p].raw.from = {}
        /\ \E r \in created : r.orderId = req[p].raw.orderId) =>
         req[p].result.ok
    /\ (/\ Finished(p, "POST /transactions/_counts")
        /\ Len(req[p].raw.orderIds) > 0
        /\ \A i \in 1..Len(req[p].raw.orderIds) :
             \E r \in created : r.orderId = req[p].raw.orderIds[i]) =>
         req[p].result.ok

====
